---- MODULE Spec2Model ----
(***************************************************************************)
(* Model of the calocapital_options scripts:                               *)
(*   src/options/debit_spreads.py  DebitSpreadAnalyzer, UserInterface, main *)
(*   src/main.py                   detect_ps_anomalies                     *)
(*                                                                         *)
(* Python floats are modelled as exact rationals <<num, den>> in lowest    *)
(* terms with den > 0.  The three IEEE specials keep den = 0:              *)
(* NaN = <<0,0>>, +inf = <<1,0>>, -inf = <<-1,0>>.                         *)
(***************************************************************************)
EXTENDS Integers, Sequences, FiniteSets, TLC

VARIABLES
    pc,            \* position of main() / last analyzer method that ran
    exc,           \* exception that ended the run ("" when none)
    out,           \* message on screen at the current prompt or at the end
    expirations,   \* list returned by get_available_expirations
    selected,      \* expiration returned by choose_expiration
    max_pct,       \* value returned by ask_max_pct_to_be
    chain,         \* chain.calls of the option chain in use
    spot_price,    \* DebitSpreadAnalyzer.spot_price (the cache)
    fetches,       \* number of times the price provider was queried
    ret,           \* value returned by the last get_spot_price call
    printed_spot,  \* spot printed by main
    calls,         \* calls after _prepare_calls_data
    pairs,         \* (long, short) row pairs handed to _calculate_spread_metrics
    all_spreads,   \* rows of the DataFrame returned by build_call_debit_spreads
    args,          \* arguments of the last rank_spreads call
    filtered,      \* rows after _apply_filters
    scored,        \* rows after _calculate_scores
    top_spreads,   \* rows returned by rank_spreads
    df,            \* rows of the preloaded price-to-sales dataset
    stats          \* dict returned by detect_ps_anomalies

vars == <<pc, exc, out, expirations, selected, max_pct, chain, spot_price,
          fetches, ret, printed_spot, calls, pairs, all_spreads, args,
          filtered, scored, top_spreads, df, stats>>

(***************************************************************************)
(* Bounds of the model                                                     *)
(***************************************************************************)
MaxCalls == 3
MaxTopN == 2
MaxFetches == 2
MaxExpirations == 2
MaxInputLen == 3
MaxObs == 5

(***************************************************************************)
(* Float arithmetic                                                        *)
(***************************************************************************)
NaN == <<0, 0>>
PosInf == <<1, 0>>
NegInf == <<-1, 0>>
None == NaN

Abs(x) == IF x < 0 THEN -x ELSE x
Sign(x) == IF x < 0 THEN -1 ELSE IF x > 0 THEN 1 ELSE 0
Min(a, b) == IF a <= b THEN a ELSE b

RECURSIVE GCD(_, _)
GCD(a, b) == IF b = 0 THEN a ELSE GCD(b, a % b)

\* the float n/d
Rat(n, d) ==
    IF d = 0 THEN <<Sign(n), 0>>
    ELSE LET g == GCD(Abs(n), Abs(d))
         IN  <<(Sign(d) * n) \div g, Abs(d) \div g>>

IsFinite(a) == a[2] # 0
IsNaN(a) == a = NaN

\* a + b, a - b, a * b, a / b on floats
Add(a, b) ==
    IF IsNaN(a) \/ IsNaN(b) THEN NaN
    ELSE IF ~IsFinite(a) /\ ~IsFinite(b) THEN (IF a = b THEN a ELSE NaN)
    ELSE IF ~IsFinite(a) THEN a
    ELSE IF ~IsFinite(b) THEN b
    ELSE LET g == GCD(a[2], b[2])
         IN  Rat(a[1] * (b[2] \div g) + b[1] * (a[2] \div g),
                 (a[2] \div g) * b[2])
Neg(a) == <<-a[1], a[2]>>
Sub(a, b) == Add(a, Neg(b))
Mul(a, b) ==
    IF IsNaN(a) \/ IsNaN(b) THEN NaN
    ELSE IF ~IsFinite(a) \/ ~IsFinite(b)
         THEN <<Sign(a[1]) * Sign(b[1]), 0>>
    ELSE LET g == GCD(Abs(a[1]), b[2])
             h == GCD(Abs(b[1]), a[2])
         IN  Rat((a[1] \div g) * (b[1] \div h), (a[2] \div h) * (b[2] \div g))
\* numpy float64 division: x/0 is +-inf, 0/0 is nan, with a warning only
Div(a, b) ==
    IF IsNaN(a) \/ IsNaN(b) THEN NaN
    ELSE IF ~IsFinite(a) /\ ~IsFinite(b) THEN NaN
    ELSE IF ~IsFinite(a) THEN <<a[1] * (IF b[1] < 0 THEN -1 ELSE 1), 0>>
    ELSE IF ~IsFinite(b) THEN <<0, 1>>
    ELSE IF b[1] = 0 THEN <<Sign(a[1]), 0>>
    ELSE LET g == GCD(Abs(a[1]), Abs(b[1]))
             h == GCD(a[2], b[2])
         IN  Rat((a[1] \div g) * (b[2] \div h), (a[2] \div h) * (b[1] \div g))

\* a < b, a <= b on floats: every comparison with NaN is False
Lt(a, b) ==
    /\ ~IsNaN(a) /\ ~IsNaN(b)
    /\ IF ~IsFinite(a) /\ ~IsFinite(b) THEN a[1] < b[1]
       ELSE IF ~IsFinite(a) \/ ~IsFinite(b) THEN a[1] * b[2] < b[1] * a[2]
       ELSE LET g == GCD(a[2], b[2])
            IN  a[1] * (b[2] \div g) < b[1] * (a[2] \div g)
Leq(a, b) ==
    /\ ~IsNaN(a) /\ ~IsNaN(b)
    /\ IF ~IsFinite(a) /\ ~IsFinite(b) THEN a[1] <= b[1]
       ELSE IF ~IsFinite(a) \/ ~IsFinite(b) THEN a[1] * b[2] <= b[1] * a[2]
       ELSE LET g == GCD(a[2], b[2])
            IN  a[1] * (b[2] \div g) <= b[1] * (a[2] \div g)

Pow10(d) == IF d = 0 THEN 1 ELSE IF d = 1 THEN 10 ELSE IF d = 2 THEN 100 ELSE 1000

\* round(a, d): to d decimals, ties to the even neighbour
HalfEven(n, m) ==
    LET q == n \div m
        r == n % m
    IN  IF 2 * r < m THEN q
        ELSE IF 2 * r > m THEN q + 1
        ELSE IF q % 2 = 0 THEN q ELSE q + 1
Round(a, d) ==
    IF ~IsFinite(a) THEN a
    ELSE Rat(HalfEven(a[1] * Pow10(d), a[2]), Pow10(d))

\* int(a): truncation toward zero
Trunc(a) == Sign(a[1]) * (Abs(a[1]) \div a[2])

(***************************************************************************)
(* Inputs: option quotes, price-provider answers                           *)
(***************************************************************************)
Usd(cents) == Rat(cents, 100)

Quote(sym, strike, bid, ask) ==
    [contractSymbol |-> sym, strike |-> strike, bid |-> bid, ask |-> ask]

\* contractSymbol missing in the provider's table
NoSymbol == "NaN"

\* The quotes a chain is drawn from, in the provider's row order.
Market == <<
    Quote("C110A", Usd(11000), Usd(100), Usd(120)),
    Quote("C100A", Usd(10000), Usd(500), Usd(520)),
    Quote("C100B", Usd(10000), Usd(195), Usd(205)),
    Quote("C105B", Usd(10500), Usd(115), Usd(120)),
    Quote("C110B", Usd(11000), Usd(40), Usd(45)),
    Quote("C105C", Usd(10500), Usd(5), Usd(15)),
    Quote("C105D", Usd(10500), NaN, Usd(130)),
    Quote(NoSymbol, Usd(9500), Usd(900), Usd(1000))
>>

RECURSIVE SubSeqs(_, _)
\* the subsequences of s[i..] (rows kept in order)
SubSeqs(s, i) ==
    IF i > Len(s) THEN {<<>>}
    ELSE LET rest == SubSeqs(s, i + 1)
         IN  rest \cup {<<s[i]>> \o t : t \in rest}

Chains == {c \in SubSeqs(Market, 1) : Len(c) <= MaxCalls}

Prices == {Usd(10500), Usd(9800)}

\* One answer of the price provider to a fetch: fast_info["lastPrice"]
\* (raises, is None/0, or a price) and info["regularMarketPrice"]
\* (missing/None, or a price).
Responses ==
    {[fast_raises |-> FALSE, lastPrice |-> p, info_raises |-> TRUE,
      regularMarketPrice |-> None] : p \in Prices}
    \cup {[fast_raises |-> f, lastPrice |-> None, info_raises |-> FALSE,
           regularMarketPrice |-> p] : f \in BOOLEAN, p \in Prices}
    \cup {[fast_raises |-> f, lastPrice |-> None, info_raises |-> TRUE,
           regularMarketPrice |-> None] : f \in BOOLEAN}

\* the answers that matter to a call: none is read while the cache is filled
ResponsesFor(cache) ==
    IF cache # None THEN {CHOOSE r \in Responses : TRUE} ELSE Responses

(***************************************************************************)
(* DebitSpreadAnalyzer                                                     *)
(***************************************************************************)
\* get_spot_price: the value returned, the cache afterwards, whether the
\* provider was queried, whether the call raised
FetchSpotPrice(cache, resp) ==
    IF ~resp.fast_raises /\ resp.lastPrice # None /\ resp.lastPrice # <<0, 1>>
    THEN [value |-> resp.lastPrice, cache |-> resp.lastPrice,
          fetched |-> 1, raised |-> FALSE]
    ELSE IF resp.info_raises
    THEN [value |-> None, cache |-> cache, fetched |-> 1, raised |-> TRUE]
    ELSE [value |-> resp.regularMarketPrice, cache |-> resp.regularMarketPrice,
          fetched |-> 1, raised |-> FALSE]

\* Faulty variant: the cache is never consulted
GetSpotPriceAlwaysFetch(cache, resp) == FetchSpotPrice(cache, resp)
GetSpotPrice(cache, resp) ==
    IF cache # None
    THEN [value |-> cache, cache |-> cache, fetched |-> 0, raised |-> FALSE]
    ELSE FetchSpotPrice(cache, resp)

\* dropna(subset=[bid, ask, strike, contractSymbol])
HasNa(q) ==
    \/ IsNaN(q.bid) \/ IsNaN(q.ask) \/ IsNaN(q.strike)
    \/ q.contractSymbol = NoSymbol

Mid(q) == Div(Add(q.bid, q.ask), <<2, 1>>)

PrepareCallsData(calls_df) ==
    LET kept == SelectSeq(calls_df, LAMBDA q : ~HasNa(q))
    IN  [i \in 1..Len(kept) |->
            [contractSymbol |-> kept[i].contractSymbol, strike |-> kept[i].strike,
             bid |-> kept[i].bid, ask |-> kept[i].ask, mid |-> Mid(kept[i])]]

IndexSeq(n) == [k \in 1..n |-> k]

\* calls[calls["strike"] > long_call["strike"]], as row numbers
\* Faulty variant: strikes compared with >=
ShortCallsNotBelow(cs, i) ==
    SelectSeq(IndexSeq(Len(cs)), LAMBDA j : Leq(cs[i].strike, cs[j].strike))
ShortCalls(cs, i) ==
    SelectSeq(IndexSeq(Len(cs)), LAMBDA j : Lt(cs[i].strike, cs[j].strike))

RECURSIVE CandidatePairs(_, _)
\* the (long, short) row pairs of the two nested loops, in iteration order
CandidatePairs(cs, i) ==
    IF i > Len(cs) THEN <<>>
    ELSE LET sc == ShortCalls(cs, i)
         IN  [k \in 1..Len(sc) |-> <<i, sc[k]>>] \o CandidatePairs(cs, i + 1)

Hundred == <<100, 1>>

PctToBreakeven(breakeven, spot) ==
    Mul(Sub(Div(breakeven, spot), <<1, 1>>), Hundred)

\* Faulty variant: the debit is subtracted from the long strike
BreakevenMinusDebit(long_call, debit) == Sub(long_call.strike, debit)
Breakeven(long_call, debit) == Add(long_call.strike, debit)

NoSpread == [valid |-> FALSE]

\* _calculate_spread_metrics once the spot is known
SpreadRow(long_call, short_call, expiration, spot) ==
    LET debit == Sub(long_call.mid, short_call.mid)
        width == Sub(short_call.strike, long_call.strike)
        max_profit == Sub(width, debit)
        breakeven == Breakeven(long_call, debit)
    IN  [valid |-> TRUE,
         exp |-> expiration,
         buy_call |-> long_call.contractSymbol,
         sell_call |-> short_call.contractSymbol,
         buyK |-> long_call.strike,
         sellK |-> short_call.strike,
         buy_mid |-> long_call.mid,
         sell_mid |-> short_call.mid,
         debit |-> debit,
         max_loss_usd |-> Mul(debit, Hundred),
         max_profit_usd |-> Mul(max_profit, Hundred),
         breakeven |-> breakeven,
         pctToBE |-> PctToBreakeven(breakeven, spot),
         ROI_x |-> Div(max_profit, debit)]

\* the two early returns of _calculate_spread_metrics
Rejects(long_call, short_call) ==
    LET debit == Sub(long_call.mid, short_call.mid)
        width == Sub(short_call.strike, long_call.strike)
    IN  Leq(debit, <<0, 1>>) \/ Leq(Sub(width, debit), <<0, 1>>)

\* _calculate_spread_metrics: the row (or NoSpread for None), with what the
\* get_spot_price call inside it did
CalculateSpreadMetrics(long_call, short_call, expiration, cache, resp) ==
    IF Rejects(long_call, short_call)
    THEN [spread |-> NoSpread, cache |-> cache, fetched |-> 0, raised |-> FALSE]
    ELSE LET g == GetSpotPrice(cache, resp)
         IN  IF g.raised
             THEN [spread |-> NoSpread, cache |-> g.cache,
                   fetched |-> g.fetched, raised |-> TRUE]
             ELSE [spread |-> SpreadRow(long_call, short_call, expiration, g.value),
                   cache |-> g.cache, fetched |-> g.fetched, raised |-> FALSE]

RECURSIVE BuildLoop(_, _, _, _, _, _, _, _)
\* the nested loops of build_call_debit_spreads from pair k on
BuildLoop(cs, ps, k, expiration, cache, resp, n, acc) ==
    IF k > Len(ps)
    THEN [spreads |-> acc, cache |-> cache, fetched |-> n, raised |-> FALSE]
    ELSE LET m == CalculateSpreadMetrics(cs[ps[k][1]], cs[ps[k][2]],
                                         expiration, cache, resp)
         IN  IF m.raised
             THEN [spreads |-> acc, cache |-> m.cache,
                   fetched |-> n + m.fetched, raised |-> TRUE]
             ELSE BuildLoop(cs, ps, k + 1, expiration, m.cache, resp,
                            n + m.fetched,
                            IF m.spread.valid THEN Append(acc, m.spread) ELSE acc)

\* build_call_debit_spreads
BuildCallDebitSpreads(calls_df, expiration, cache, resp) ==
    LET cs == PrepareCallsData(calls_df)
        ps == CandidatePairs(cs, 1)
        b == BuildLoop(cs, ps, 1, expiration, cache, resp, 0, <<>>)
    IN  [calls |-> cs, pairs |-> ps, spreads |-> b.spreads, cache |-> b.cache,
         fetched |-> b.fetched, raised |-> b.raised]

\* _apply_filters: three boolean masks applied in turn
ApplyFiltersStrictLoss(rows, max_pct_to_be, max_loss_usd, min_max_profit_usd) ==
    LET f1 == SelectSeq(rows, LAMBDA r : Leq(r.pctToBE, max_pct_to_be))
        f2 == SelectSeq(f1, LAMBDA r : Lt(r.max_loss_usd, max_loss_usd))
    IN  SelectSeq(f2, LAMBDA r : Leq(min_max_profit_usd, r.max_profit_usd))
ApplyFilters(rows, max_pct_to_be, max_loss_usd, min_max_profit_usd) ==
    LET f1 == SelectSeq(rows, LAMBDA r : Leq(r.pctToBE, max_pct_to_be))
        f2 == SelectSeq(f1, LAMBDA r : Leq(r.max_loss_usd, max_loss_usd))
    IN  SelectSeq(f2, LAMBDA r : Leq(min_max_profit_usd, r.max_profit_usd))

\* _create_summary: the numbers the f-string prints
\* (int(buyK), int(sellK), max_loss .0f, max_profit .0f, breakeven .2f, %ToBE .1f)
CreateSummary(r) ==
    <<Trunc(r.buyK), Trunc(r.sellK), Round(r.max_loss_usd, 0),
      Round(r.max_profit_usd, 0), Round(r.breakeven, 2), Round(r.pctToBE, 1)>>

ScoreOf(r, k_pct_penalty) ==
    Sub(Div(r.max_profit_usd, r.max_loss_usd), Mul(k_pct_penalty, r.pctToBE))

\* _calculate_scores
CalculateScores(rows, k_pct_penalty) ==
    [i \in 1..Len(rows) |->
        [valid |-> TRUE, exp |-> rows[i].exp, buy_call |-> rows[i].buy_call,
         sell_call |-> rows[i].sell_call, buyK |-> rows[i].buyK,
         sellK |-> rows[i].sellK, buy_mid |-> rows[i].buy_mid,
         sell_mid |-> rows[i].sell_mid, debit |-> rows[i].debit,
         max_loss_usd |-> rows[i].max_loss_usd,
         max_profit_usd |-> rows[i].max_profit_usd,
         breakeven |-> rows[i].breakeven, pctToBE |-> rows[i].pctToBE,
         ROI_x |-> rows[i].ROI_x,
         score |-> ScoreOf(rows[i], k_pct_penalty),
         summary |-> CreateSummary(rows[i])]]

\* Faulty variant: both sort keys ascending
SortsBeforeAscending(a, b) ==
    \/ Lt(a.score, b.score)
    \/ a.score = b.score /\ Lt(a.max_loss_usd, b.max_loss_usd)
\* sort_values(["score", "max_loss_$"], ascending=[False, True]): a sorts
\* strictly before b
SortsBefore(a, b) ==
    \/ Lt(b.score, a.score)
    \/ a.score = b.score /\ Lt(a.max_loss_usd, b.max_loss_usd)

RECURSIVE InsertSorted(_, _, _)
InsertSorted(x, s, i) ==
    IF i > Len(s) THEN Append(s, x)
    ELSE IF SortsBefore(x, s[i])
         THEN SubSeq(s, 1, i - 1) \o <<x>> \o SubSeq(s, i, Len(s))
         ELSE InsertSorted(x, s, i + 1)

RECURSIVE SortFrom(_, _, _)
SortFrom(rows, k, acc) ==
    IF k > Len(rows) THEN acc
    ELSE SortFrom(rows, k + 1, InsertSorted(rows[k], acc, 1))

\* the stable sort of sort_values
SortValues(rows) == SortFrom(rows, 1, <<>>)

\* Faulty variant: the truncation is dropped
HeadAll(rows, n) == rows
\* DataFrame.head(n)
HeadRows(rows, n) ==
    IF n >= 0 THEN SubSeq(rows, 1, Min(n, Len(rows)))
    ELSE SubSeq(rows, 1, IF Len(rows) + n > 0 THEN Len(rows) + n ELSE 0)

\* df[display_columns].round(rounding_rules) on one row
DisplayRow(r) ==
    [exp |-> r.exp, buy_call |-> r.buy_call, sell_call |-> r.sell_call,
     buyK |-> r.buyK, sellK |-> r.sellK,
     buy_mid |-> Round(r.buy_mid, 3), sell_mid |-> Round(r.sell_mid, 3),
     max_loss_usd |-> Round(r.max_loss_usd, 2),
     max_profit_usd |-> Round(r.max_profit_usd, 2),
     breakeven |-> Round(r.breakeven, 2), pctToBE |-> Round(r.pctToBE, 2),
     ROI_x |-> Round(r.ROI_x, 2), score |-> Round(r.score, 3),
     summary |-> r.summary]

\* _sort_and_format
SortAndFormat(rows, top_n) ==
    LET h == HeadRows(SortValues(rows), top_n)
    IN  [i \in 1..Len(h) |-> DisplayRow(h[i])]

\* rank_spreads: the table returned, with the intermediate tables
RankSpreads(rows, max_pct_to_be, max_loss_usd, min_max_profit_usd, k_pct_penalty, top_n) ==
    IF rows = <<>>
    THEN [filtered |-> <<>>, scored |-> <<>>, ranked |-> <<>>]
    ELSE LET f == ApplyFilters(rows, max_pct_to_be, max_loss_usd,
                               min_max_profit_usd)
         IN  IF f = <<>>
             THEN [filtered |-> f, scored |-> <<>>, ranked |-> <<>>]
             ELSE LET sc == CalculateScores(f, k_pct_penalty)
                  IN  [filtered |-> f, scored |-> sc,
                       ranked |-> SortAndFormat(sc, top_n)]

(***************************************************************************)
(* The analyzer driven by a caller: get_spot_price at any time, one scan   *)
(* (build_call_debit_spreads), rank_spreads on its result with any         *)
(* thresholds                                                              *)
(***************************************************************************)
Expirations == <<"2026-01-16", "2026-02-20", "2026-03-20">>

NoArgs == [max_pct_to_be |-> NaN, max_loss_usd |-> NaN,
           min_max_profit_usd |-> NaN, k_pct_penalty |-> NaN, top_n |-> 0]
NoStats == [error |-> "none"]

\* rank_spreads' defaults and the thresholds a caller tries
DEFAULT_K_PCT_PENALTY == Rat(8, 100)
MaxPctChoices == {<<0, 1>>, <<15, 1>>}
MaxLossChoices == {<<75, 1>>, <<200, 1>>}
MinProfitChoices == {<<200, 1>>, <<425, 1>>}

InitAnalyzer ==
    /\ pc = "new"
    /\ exc = ""
    /\ out = ""
    /\ expirations = <<>>
    /\ selected = Expirations[1]
    /\ max_pct = NaN
    /\ chain = <<>>
    /\ spot_price = None
    /\ fetches = 0
    /\ ret = None
    /\ printed_spot = None
    /\ calls = <<>>
    /\ pairs = <<>>
    /\ all_spreads = <<>>
    /\ args = NoArgs
    /\ filtered = <<>>
    /\ scored = <<>>
    /\ top_spreads = <<>>
    /\ df = <<>>
    /\ stats = NoStats

CallGetSpotPrice ==
    /\ pc \in {"new", "built", "build_raised"}
    /\ spot_price # None \/ fetches < MaxFetches
    /\ \E resp \in ResponsesFor(spot_price) :
        LET g == GetSpotPrice(spot_price, resp)
        IN  /\ spot_price' = g.cache
            /\ fetches' = fetches + g.fetched
            /\ ret' = g.value
            /\ exc' = IF g.raised THEN "KeyError" ELSE ""
    /\ UNCHANGED <<pc, out, expirations, selected, max_pct, chain, printed_spot,
                   calls, pairs, all_spreads, args, filtered, scored,
                   top_spreads, df, stats>>

CallBuildCallDebitSpreads ==
    /\ pc = "new"
    /\ spot_price # None \/ fetches < MaxFetches
    /\ \E ch \in Chains, resp \in ResponsesFor(spot_price) :
        LET b == BuildCallDebitSpreads(ch, selected, spot_price, resp)
        IN  /\ chain' = ch
            /\ calls' = b.calls
            /\ pairs' = b.pairs
            /\ spot_price' = b.cache
            /\ fetches' = fetches + b.fetched
            /\ all_spreads' = IF b.raised THEN <<>> ELSE b.spreads
            /\ exc' = IF b.raised THEN "KeyError" ELSE ""
            /\ pc' = IF b.raised THEN "build_raised" ELSE "built"
    /\ UNCHANGED <<out, expirations, selected, max_pct, ret, printed_spot,
                   args, filtered, scored, top_spreads, df, stats>>

CallRankSpreads ==
    /\ pc = "built"
    /\ \E mp \in MaxPctChoices, ml \in MaxLossChoices, mi \in MinProfitChoices,
          n \in 0..MaxTopN :
        LET r == RankSpreads(all_spreads, mp, ml, mi, DEFAULT_K_PCT_PENALTY, n)
        IN  /\ args' = [max_pct_to_be |-> mp, max_loss_usd |-> ml,
                        min_max_profit_usd |-> mi,
                        k_pct_penalty |-> DEFAULT_K_PCT_PENALTY, top_n |-> n]
            /\ filtered' = r.filtered
            /\ scored' = r.scored
            /\ top_spreads' = r.ranked
    /\ pc' = "ranked"
    /\ exc' = ""
    /\ UNCHANGED <<out, expirations, selected, max_pct, chain, spot_price,
                   fetches, ret, printed_spot, calls, pairs, all_spreads, df,
                   stats>>

NextAnalyzer ==
    \/ CallGetSpotPrice
    \/ CallBuildCallDebitSpreads
    \/ CallRankSpreads

SpecAnalyzer == InitAnalyzer /\ [][NextAnalyzer]_vars

(***************************************************************************)
(* UserInterface: what the user types is a string of characters            *)
(***************************************************************************)
\* "SUP2" stands for the character U+00B2 (superscript two)
InputChars == {"1", "2", "SUP2", "-", ".", "n", "a", " "}

RECURSIVE StringsUpTo(_)
StringsUpTo(n) ==
    IF n = 0 THEN {<<>>}
    ELSE LET shorter == StringsUpTo(n - 1)
         IN  shorter \cup {Append(t, c) : t \in shorter, c \in InputChars}

Inputs == StringsUpTo(MaxInputLen)

RECURSIVE LStrip(_)
LStrip(s) == IF s # <<>> /\ s[1] = " " THEN LStrip(Tail(s)) ELSE s
RECURSIVE RStrip(_)
RStrip(s) ==
    IF s # <<>> /\ s[Len(s)] = " " THEN RStrip(SubSeq(s, 1, Len(s) - 1)) ELSE s
\* str.strip()
Strip(s) == RStrip(LStrip(s))

\* str.isdigit(): non-empty, every character has the Unicode digit property
UnicodeDigits == {"0", "1", "2", "SUP2"}
IsDigit(s) == s # <<>> /\ \A i \in DOMAIN s : s[i] \in UnicodeDigits

\* int(s) and float(s) read decimal digits only
DecimalDigits == {"0", "1", "2"}
DigitValue(c) == IF c = "0" THEN 0 ELSE IF c = "1" THEN 1 ELSE 2
AllDecimal(s) == \A i \in DOMAIN s : s[i] \in DecimalDigits

RECURSIVE Decimal(_)
\* the number a string of decimal digits denotes (0 for the empty string)
Decimal(s) ==
    IF s = <<>> THEN 0
    ELSE 10 * Decimal(SubSeq(s, 1, Len(s) - 1)) + DigitValue(s[Len(s)])

\* int(s) for a string that passed isdigit(): a value, or ValueError
IntRaises(s) == ~AllDecimal(s)
IntOf(s) == Decimal(s)

Unsigned(s) == IF s # <<>> /\ s[1] = "-" THEN Tail(s) ELSE s
DotAt(s) == {i \in DOMAIN s : s[i] = "."}
\* digits [. digits] or . digits, at least one digit
IsNumberLiteral(s) ==
    /\ Cardinality(DotAt(s)) <= 1
    /\ \A i \in DOMAIN s : s[i] \in DecimalDigits \cup {"."}
    /\ \E i \in DOMAIN s : s[i] \in DecimalDigits
NumberOf(s) ==
    IF DotAt(s) = {} THEN Rat(Decimal(s), 1)
    ELSE LET d == CHOOSE i \in DotAt(s) : TRUE
             frac == SubSeq(s, d + 1, Len(s))
         IN  Rat(Decimal(SubSeq(s, 1, d - 1) \o frac), Pow10(Len(frac)))

\* float(s): ValueError unless [-] number or [-] nan
FloatRaises(s) ==
    ~(IsNumberLiteral(Unsigned(s)) \/ Unsigned(s) = <<"n", "a", "n">>)
FloatOf(s) ==
    IF Unsigned(s) = <<"n", "a", "n">> THEN NaN
    ELSE IF s[1] = "-" THEN Neg(NumberOf(Unsigned(s)))
    ELSE NumberOf(s)

\* choose_expiration on one line of input: return, reprompt or raise
ChooseExpirationStep(exps, inp) ==
    LET choice == Strip(inp)
    IN  IF ~IsDigit(choice)
        THEN [kind |-> "reprompt", msg |-> "Please enter an integer.", idx |-> 0]
        ELSE IF IntRaises(choice)
        THEN [kind |-> "raise", msg |-> "ValueError", idx |-> 0]
        ELSE IF 1 <= IntOf(choice) /\ IntOf(choice) <= Len(exps)
        THEN [kind |-> "return", msg |-> "", idx |-> IntOf(choice)]
        ELSE [kind |-> "reprompt", msg |-> "Please enter a number between 1 and N.",
              idx |-> 0]

\* ask_max_pct_to_be on one line of input: return or reprompt
AskMaxPctToBeStep(default, inp) ==
    LET val == Strip(inp)
    IN  IF val = <<>> THEN [kind |-> "return", value |-> default]
        ELSE IF FloatRaises(val) THEN [kind |-> "reprompt", value |-> NaN]
        ELSE IF Leq(FloatOf(val), <<0, 1>>) THEN [kind |-> "reprompt", value |-> NaN]
        ELSE [kind |-> "return", value |-> FloatOf(val)]

(***************************************************************************)
(* main() of debit_spreads.py                                              *)
(***************************************************************************)
MAIN_DEFAULT_MAX_PCT == 15
MAIN_MAX_LOSS_USD == 200
MAIN_MIN_MAX_PROFIT_USD == 200
MAIN_TOP_N == 15

Init ==
    /\ pc = "start"
    /\ exc = ""
    /\ out = ""
    /\ expirations = <<>>
    /\ selected = ""
    /\ max_pct = NaN
    /\ chain = <<>>
    /\ spot_price = None
    /\ fetches = 0
    /\ ret = None
    /\ printed_spot = None
    /\ calls = <<>>
    /\ pairs = <<>>
    /\ all_spreads = <<>>
    /\ args = NoArgs
    /\ filtered = <<>>
    /\ scored = <<>>
    /\ top_spreads = <<>>
    /\ df = <<>>
    /\ stats = NoStats

\* get_available_expirations, called by main
GetAvailableExpirations ==
    /\ pc = "start"
    /\ \E n \in 0..MaxExpirations :
        LET exps == SubSeq(Expirations, 1, n)
        IN  IF exps = <<>>
            THEN /\ pc' = "raised"
                 /\ exc' = "RuntimeError"
                 /\ UNCHANGED expirations
            ELSE /\ pc' = "choose"
                 /\ expirations' = exps
                 /\ UNCHANGED exc
    /\ UNCHANGED <<out, selected, max_pct, chain, spot_price, fetches, ret,
                   printed_spot, calls, pairs, all_spreads, args, filtered,
                   scored, top_spreads, df, stats>>

\* one turn of choose_expiration's loop
ChooseExpiration ==
    /\ pc = "choose"
    /\ \E inp \in Inputs :
        LET c == ChooseExpirationStep(expirations, inp)
        IN  /\ pc' = IF c.kind = "return" THEN "ask"
                     ELSE IF c.kind = "raise" THEN "raised" ELSE pc
            /\ exc' = IF c.kind = "raise" THEN c.msg ELSE exc
            /\ out' = IF c.kind = "reprompt" THEN c.msg ELSE ""
            /\ selected' = IF c.kind = "return" THEN expirations[c.idx]
                           ELSE selected
    /\ UNCHANGED <<expirations, max_pct, chain, spot_price, fetches, ret,
                   printed_spot, calls, pairs, all_spreads, args, filtered,
                   scored, top_spreads, df, stats>>

\* one turn of ask_max_pct_to_be's loop
AskMaxPctToBe ==
    /\ pc = "ask"
    /\ \E inp \in Inputs :
        LET a == AskMaxPctToBeStep(<<MAIN_DEFAULT_MAX_PCT, 1>>, inp)
        IN  /\ pc' = IF a.kind = "return" THEN "chain" ELSE pc
            /\ max_pct' = IF a.kind = "return" THEN a.value ELSE max_pct
            /\ out' = IF a.kind = "reprompt"
                      THEN "Enter a positive number (e.g. 10, 15, 20)" ELSE ""
    /\ UNCHANGED <<exc, expirations, selected, chain, spot_price, fetches, ret,
                   printed_spot, calls, pairs, all_spreads, args, filtered,
                   scored, top_spreads, df, stats>>

\* get_option_chain: whatever the provider holds for the expiration
GetOptionChain ==
    /\ pc = "chain"
    /\ \E ch \in Chains : chain' = ch
    /\ pc' = "spot"
    /\ UNCHANGED <<exc, out, expirations, selected, max_pct, spot_price,
                   fetches, ret, printed_spot, calls, pairs, all_spreads, args,
                   filtered, scored, top_spreads, df, stats>>

\* spot = analyzer.get_spot_price() and the "Selected ..." line
MainGetSpotPrice ==
    /\ pc = "spot"
    /\ \E resp \in ResponsesFor(spot_price) :
        LET g == GetSpotPrice(spot_price, resp)
        IN  /\ spot_price' = g.cache
            /\ fetches' = fetches + g.fetched
            /\ ret' = g.value
            /\ exc' = IF g.raised THEN "KeyError" ELSE exc
            /\ pc' = IF g.raised THEN "raised" ELSE "build"
            /\ printed_spot' = IF g.raised THEN printed_spot ELSE g.value
            /\ out' = IF g.raised THEN out ELSE "Selected"
    /\ UNCHANGED <<expirations, selected, max_pct, chain, calls, pairs,
                   all_spreads, args, filtered, scored, top_spreads, df, stats>>

\* all_spreads = analyzer.build_call_debit_spreads(chain, selected_expiration)
MainBuildCallDebitSpreads ==
    /\ pc = "build"
    /\ \E resp \in ResponsesFor(spot_price) :
        LET b == BuildCallDebitSpreads(chain, selected, spot_price, resp)
        IN  /\ calls' = b.calls
            /\ pairs' = b.pairs
            /\ spot_price' = b.cache
            /\ fetches' = fetches + b.fetched
            /\ all_spreads' = IF b.raised THEN all_spreads ELSE b.spreads
            /\ exc' = IF b.raised THEN "KeyError" ELSE exc
            /\ pc' = IF b.raised THEN "raised" ELSE "rank"
    /\ UNCHANGED <<out, expirations, selected, max_pct, chain, ret,
                   printed_spot, args, filtered, scored, top_spreads, df, stats>>

\* top_spreads = analyzer.rank_spreads(...) and the display of the result
MainRankSpreads ==
    /\ pc = "rank"
    /\ LET r == RankSpreads(all_spreads, max_pct, <<MAIN_MAX_LOSS_USD, 1>>,
                            <<MAIN_MIN_MAX_PROFIT_USD, 1>>,
                            DEFAULT_K_PCT_PENALTY, MAIN_TOP_N)
       IN  /\ args' = [max_pct_to_be |-> max_pct,
                       max_loss_usd |-> <<MAIN_MAX_LOSS_USD, 1>>,
                       min_max_profit_usd |-> <<MAIN_MIN_MAX_PROFIT_USD, 1>>,
                       k_pct_penalty |-> DEFAULT_K_PCT_PENALTY,
                       top_n |-> MAIN_TOP_N]
           /\ filtered' = r.filtered
           /\ scored' = r.scored
           /\ top_spreads' = r.ranked
           /\ pc' = IF r.ranked = <<>> THEN "exit0" ELSE "done"
           /\ out' = IF r.ranked = <<>> THEN "No spreads matched your filters."
                     ELSE "table"
    /\ UNCHANGED <<exc, expirations, selected, max_pct, chain, spot_price,
                   fetches, ret, printed_spot, calls, pairs, all_spreads, df,
                   stats>>

Next ==
    \/ GetAvailableExpirations
    \/ ChooseExpiration
    \/ AskMaxPctToBe
    \/ GetOptionChain
    \/ MainGetSpotPrice
    \/ MainBuildCallDebitSpreads
    \/ MainRankSpreads

Spec == Init /\ [][Next]_vars

(***************************************************************************)
(* detect_ps_anomalies of main.py                                          *)
(***************************************************************************)
Tickers == {"AI"}

\* what one row of the dataset can hold: (Ticker, price-to-sales ratio)
RowKinds == {<<"AI", NaN>>, <<"AI", Rat(1004, 1000)>>, <<"AI", Rat(101, 100)>>,
             <<"AI", Rat(1496, 1000)>>, <<"GEO", Rat(3, 1)>>}

RECURSIVE RowSeqs(_)
RowSeqs(n) ==
    IF n = 0 THEN {<<>>}
    ELSE LET shorter == RowSeqs(n - 1)
         IN  shorter \cup {Append(t, k) : t \in shorter, k \in RowKinds}

\* the dataset with the rows stored oldest first or newest first
Dataset(rows, newest_first) ==
    [i \in 1..Len(rows) |->
        [Ticker |-> rows[i][1],
         Date |-> IF newest_first THEN Len(rows) + 1 - i ELSE i,
         ps |-> rows[i][2]]]

RECURSIVE InsertByDate(_, _, _)
\* row x inserted into the date-sorted s after every row not later than it
InsertByDate(x, s, i) ==
    IF i > Len(s) THEN Append(s, x)
    ELSE IF x.Date < s[i].Date
         THEN SubSeq(s, 1, i - 1) \o <<x>> \o SubSeq(s, i, Len(s))
         ELSE InsertByDate(x, s, i + 1)

RECURSIVE SortByDate(_, _, _)
\* sort_values("Date")
SortByDate(rows, k, acc) ==
    IF k > Len(rows) THEN acc
    ELSE SortByDate(rows, k + 1, InsertByDate(rows[k], acc, 1))

\* df[df["Ticker"] == ticker].sort_values("Date")
SubFrame(ticker, rows) ==
    SortByDate(SelectSeq(rows, LAMBDA r : r.Ticker = ticker), 1, <<>>)

\* round(sub[PS_COLUMN].dropna().astype(float), 2)
PsSeries(ticker, rows) ==
    LET kept == SelectSeq(SubFrame(ticker, rows), LAMBDA r : ~IsNaN(r.ps))
    IN  [i \in 1..Len(kept) |-> Round(kept[i].ps, 2)]

RECURSIVE SumFrom(_, _)
SumFrom(xs, i) == IF i > Len(xs) THEN <<0, 1>> ELSE Add(xs[i], SumFrom(xs, i + 1))

Mean(xs) == Div(SumFrom(xs, 1), <<Len(xs), 1>>)

\* the sample variance (ddof = 1); NaN for a single observation
Variance(xs) ==
    IF Len(xs) < 2 THEN NaN
    ELSE LET m == Mean(xs)
             sq == [i \in 1..Len(xs) |-> Mul(Sub(xs[i], m), Sub(xs[i], m))]
         IN  Div(SumFrom(sq, 1), <<Len(xs) - 1, 1>>)

\* s - 1/2 <= sqrt(p/q)
HalfBelow(p, q, s) == (2 * s - 1) * (2 * s - 1) * q <= p

RECURSIVE SqrtAbove(_, _, _)
\* a power of two h with sqrt(p/q) < h - 1/2
SqrtAbove(p, q, h) == IF HalfBelow(p, q, h) THEN SqrtAbove(p, q, 2 * h) ELSE h

RECURSIVE SqrtHalfUp(_, _, _, _)
\* the largest s with s - 1/2 <= sqrt(p/q), known to lie in lo..hi-1
SqrtHalfUp(p, q, lo, hi) ==
    IF hi - lo <= 1 THEN lo
    ELSE LET mid == (lo + hi) \div 2
         IN  IF HalfBelow(p, q, mid) THEN SqrtHalfUp(p, q, mid, hi)
             ELSE SqrtHalfUp(p, q, lo, mid)

\* round(sqrt(v), 2)
RoundedSqrt(v) ==
    IF ~IsFinite(v) THEN v
    ELSE LET g == GCD(v[2], 40000)
             p == (40000 \div g) * v[1]
             q == v[2] \div g
             \* s - 1/2 <= 100 * sqrt(v) < s + 1/2, or the tie s - 1/2
             s == SqrtHalfUp(p, q, 0, SqrtAbove(p, q, 1))
             tie == s > 0 /\ (2 * s - 1) * (2 * s - 1) * q = p
         IN  Rat(IF tie /\ s % 2 = 1 THEN s - 1 ELSE s, 100)

\* round(ps.std(), 2)
Std(xs) == RoundedSqrt(Variance(xs))

RECURSIVE InsertValue(_, _, _)
InsertValue(x, s, i) ==
    IF i > Len(s) THEN Append(s, x)
    ELSE IF Lt(x, s[i])
         THEN SubSeq(s, 1, i - 1) \o <<x>> \o SubSeq(s, i, Len(s))
         ELSE InsertValue(x, s, i + 1)

RECURSIVE SortValuesFrom(_, _, _)
SortValuesFrom(xs, k, acc) ==
    IF k > Len(xs) THEN acc
    ELSE SortValuesFrom(xs, k + 1, InsertValue(xs[k], acc, 1))

\* the observations in ascending order (min, max and the quantiles read it)
SortedValues(xs) == SortValuesFrom(xs, 1, <<>>)

\* ps.quantile(q) with linear interpolation, q = qn/qd
Quantile(xs, qn, qd) ==
    LET srt == SortedValues(xs)
        h == (Len(xs) - 1) * qn
        lo == h \div qd
        frac == Rat(h % qd, qd)
    IN  IF lo + 2 > Len(xs) THEN srt[lo + 1]
        ELSE Add(srt[lo + 1], Mul(frac, Sub(srt[lo + 2], srt[lo + 1])))

\* (current - mean) / std as the floats compute it. For a constant series the
\* float mean may differ from the value by a rounding error of either sign,
\* so the numerator over a zero std is 0, or a tiny positive or negative number.
ZScore(current, mean, std, fuzz) ==
    IF std = <<0, 1>> /\ current = mean
    THEN Div(<<fuzz, 1>>, std)
    ELSE Div(Sub(current, mean), std)

\* Faulty variant: the thresholds are exclusive
LabelExclusive(z) ==
    IF Lt(z, Rat(-3, 2)) THEN "undervalued"
    ELSE IF Lt(Rat(3, 2), z) THEN "overvalued"
    ELSE "normal"
\* the label chosen from z
Label(z) ==
    IF Leq(z, Rat(-3, 2)) THEN "undervalued"
    ELSE IF Leq(Rat(3, 2), z) THEN "overvalued"
    ELSE "normal"

DetectPsAnomalies(ticker, rows, fuzz) ==
    LET ps == PsSeries(ticker, rows)
    IN  IF ps = <<>> THEN [ticker |-> ticker, error |-> "no data"]
        ELSE LET srt == SortedValues(ps)
                 mean == Mean(ps)
                 std == Std(ps)
                 current == Round(ps[Len(ps)], 2)
                 z == ZScore(current, mean, std, fuzz)
             IN  [ticker |-> ticker,
                  error |-> "",
                  count |-> Len(ps),
                  mean |-> mean,
                  median |-> Quantile(ps, 1, 2),
                  std |-> std,
                  min |-> Round(srt[1], 2),
                  max |-> Round(srt[Len(srt)], 2),
                  range |-> Round(Sub(srt[Len(srt)], srt[1]), 2),
                  p25 |-> Round(Quantile(ps, 1, 4), 2),
                  p75 |-> Round(Quantile(ps, 3, 4), 2),
                  iqr |-> Round(Sub(Quantile(ps, 3, 4), Quantile(ps, 1, 4)), 2),
                  current |-> current,
                  z_score_current |-> Round(z, 2),
                  label |-> Label(z)]

\* the signs the float error of a constant series' mean can take
FuzzFor(ticker, rows) ==
    LET ps == PsSeries(ticker, rows)
    IN  IF ps # <<>> /\ Std(ps) = <<0, 1>> /\ ps[Len(ps)] = Mean(ps)
        THEN {-1, 0, 1} ELSE {0}

InitPS ==
    /\ pc = "ps_start"
    /\ exc = ""
    /\ out = ""
    /\ expirations = <<>>
    /\ selected = ""
    /\ max_pct = NaN
    /\ chain = <<>>
    /\ spot_price = None
    /\ fetches = 0
    /\ ret = None
    /\ printed_spot = None
    /\ calls = <<>>
    /\ pairs = <<>>
    /\ all_spreads = <<>>
    /\ args = NoArgs
    /\ filtered = <<>>
    /\ scored = <<>>
    /\ top_spreads = <<>>
    /\ \E rows \in RowSeqs(MaxObs), newest_first \in BOOLEAN :
          df = Dataset(rows, newest_first)
    /\ stats = NoStats

CallDetectPsAnomalies ==
    /\ pc = "ps_start"
    /\ \E ticker \in Tickers : \E fuzz \in FuzzFor(ticker, df) :
          stats' = DetectPsAnomalies(ticker, df, fuzz)
    /\ pc' = "ps_done"
    /\ UNCHANGED <<exc, out, expirations, selected, max_pct, chain, spot_price,
                   fetches, ret, printed_spot, calls, pairs, all_spreads, args,
                   filtered, scored, top_spreads, df>>

NextPS == CallDetectPsAnomalies

SpecPS == InitPS /\ [][NextPS]_vars

(***************************************************************************)
(* Properties of the scan                                                  *)
(***************************************************************************)
Range(f) == {f[i] : i \in DOMAIN f}
Scanned == pc \in {"built", "ranked", "rank", "done", "exit0"}
Ranked == pc \in {"ranked", "done", "exit0"}

\* C3: build_call_debit_spreads keeps exactly the chain rows without a missing
\* bid, ask, strike or contractSymbol (k of them), forms each ordered pair of
\* rows with long.strike < short.strike exactly once and no other pair, and
\* so returns at most k*(k-1)/2 spreads.
C3_Enumeration ==
    Scanned =>
        LET k == Len(calls)
            complete == {i \in DOMAIN chain :
                            /\ chain[i].bid # NaN /\ chain[i].ask # NaN
                            /\ chain[i].strike # NaN
                            /\ chain[i].contractSymbol # NoSymbol}
        IN  /\ k = Cardinality(complete)
            /\ {calls[i].contractSymbol : i \in 1..k}
                 = {chain[i].contractSymbol : i \in complete}
            /\ 2 * Len(pairs) <= k * (k - 1)
            /\ Len(all_spreads) <= Len(pairs)
            /\ Range(pairs) = {p \in (1..k) \X (1..k) :
                                 Lt(calls[p[1]].strike, calls[p[2]].strike)}
            /\ \A m, n \in DOMAIN pairs : m # n => pairs[m] # pairs[n]
            /\ \A r \in Range(all_spreads) : \E n \in DOMAIN pairs :
                    /\ r.buy_call = calls[pairs[n][1]].contractSymbol
                    /\ r.sell_call = calls[pairs[n][2]].contractSymbol

\* C3 witness: three usable calls, two of them at the same strike, so only
\* two of the three row pairs are formed
C3_Witness ==
    /\ pc = "built" /\ Len(chain) = 3 /\ Len(calls) = 3 /\ Len(pairs) = 2

\* the row the definitions of the data model give for a (long, short) pair
DefinedRow(l, s, expiration, spot) ==
    LET debit == Sub(l.mid, s.mid)
        width == Sub(s.strike, l.strike)
        maxProfit == Sub(width, debit)
        breakeven == Add(l.strike, debit)
    IN  [valid |-> TRUE, exp |-> expiration, buy_call |-> l.contractSymbol,
         sell_call |-> s.contractSymbol, buyK |-> l.strike, sellK |-> s.strike,
         buy_mid |-> l.mid, sell_mid |-> s.mid, debit |-> debit,
         max_loss_usd |-> Mul(debit, <<100, 1>>),
         max_profit_usd |-> Mul(maxProfit, <<100, 1>>),
         breakeven |-> breakeven,
         pctToBE |-> Mul(Sub(Div(breakeven, spot), <<1, 1>>), <<100, 1>>),
         ROI_x |-> Div(maxProfit, debit)]

\* every pair is rejected exactly when debit <= 0 or maxProfit <= 0, and
\* otherwise yields exactly the row of the definitions
ValuationByDefinition ==
    /\ \A n \in DOMAIN pairs :
          LET l == calls[pairs[n][1]]
              s == calls[pairs[n][2]]
              debit == Sub(l.mid, s.mid)
              maxProfit == Sub(Sub(s.strike, l.strike), debit)
              rows == {i \in DOMAIN all_spreads :
                          /\ all_spreads[i].buy_call = l.contractSymbol
                          /\ all_spreads[i].sell_call = s.contractSymbol}
          IN  IF Leq(debit, <<0, 1>>) \/ Leq(maxProfit, <<0, 1>>)
              THEN rows = {}
              ELSE /\ Cardinality(rows) = 1
                   /\ \A i \in rows :
                        all_spreads[i] = DefinedRow(l, s, selected, spot_price)
    /\ \A r \in Range(all_spreads) :
          /\ Lt(<<0, 1>>, r.debit)
          /\ Lt(r.debit, Sub(r.sellK, r.buyK))

\* the chain of the worked example: calls (100, 5.00, 5.20), (110, 1.00, 1.20)
ExampleChain ==
    /\ Len(chain) = 2
    /\ {chain[i].contractSymbol : i \in DOMAIN chain} = {"C100A", "C110A"}
    /\ spot_price = Usd(10500)

ExampleGives(debit, width, maxProfit, breakeven) ==
    /\ Len(all_spreads) = 1
    /\ all_spreads[1].debit = debit
    /\ Sub(all_spreads[1].sellK, all_spreads[1].buyK) = width
    /\ all_spreads[1].max_profit_usd = Mul(maxProfit, <<100, 1>>)
    /\ all_spreads[1].breakeven = breakeven

\* C4 as amended: _calculate_spread_metrics returns None exactly when
\* debit <= 0 or maxProfit <= 0 and otherwise the row of the definitions, every
\* row built has 0 < debit < width, and the worked example gives debit 4.00,
\* width 10, maxProfit 6.00, breakeven 104.00.
C4_Valuation ==
    Scanned =>
        /\ ValuationByDefinition
        /\ ExampleChain =>
              ExampleGives(Usd(400), Usd(1000), Usd(600), Usd(10400))

\* C4 as stated: the same, with the worked example giving debit 4.10,
\* width 10, maxProfit 5.90, breakeven 104.10.
C4_AsStated ==
    Scanned =>
        /\ ValuationByDefinition
        /\ ExampleChain =>
              ExampleGives(Usd(410), Usd(1000), Usd(590), Usd(10410))

\* C4 witness: the worked example has been scanned
C4_Witness ==
    /\ pc = "built" /\ ExampleChain /\ Len(all_spreads) = 1

Passes(r) ==
    /\ Leq(r.pctToBE, args.max_pct_to_be)
    /\ Leq(r.max_loss_usd, args.max_loss_usd)
    /\ Leq(args.min_max_profit_usd, r.max_profit_usd)

\* C2: the filter stage's output is a subset of its input, holds exactly the
\* input rows that meet all three thresholds, and when nothing passes
\* rank_spreads returns an empty table without raising.
C2_Filter ==
    Ranked =>
        /\ Range(filtered) \subseteq Range(all_spreads)
        /\ \A r \in Range(filtered) : Passes(r)
        /\ \A r \in Range(all_spreads) : Passes(r) => r \in Range(filtered)
        /\ Len(filtered) = Cardinality({i \in DOMAIN all_spreads :
                                           Passes(all_spreads[i])})
        /\ filtered = <<>> => top_spreads = <<>> /\ exc = ""

\* C2 witness: some rows were dropped, and a kept row sits exactly on the
\* max-loss threshold
C2_Witness ==
    /\ pc = "ranked"
    /\ filtered # <<>>
    /\ Len(filtered) < Len(all_spreads)
    /\ \E r \in Range(filtered) : r.max_loss_usd = args.max_loss_usd

KeyOf(r) == <<r.buy_call, r.sell_call>>
DefinedScore(r) ==
    Sub(Div(r.max_profit_usd, r.max_loss_usd), Mul(args.k_pct_penalty, r.pctToBE))
\* x ranks strictly ahead of y: higher score, or equal score and smaller loss
StrictlyAhead(x, y) ==
    \/ Lt(DefinedScore(y), DefinedScore(x))
    \/ DefinedScore(x) = DefinedScore(y) /\ Lt(x.max_loss_usd, y.max_loss_usd)

\* C9: rank_spreads returns exactly min(top_n, number of rows passing the
\* filters) rows, each a distinct filtered row shown with its score
\* max_profit_$/max_loss_$ - k_pct_penalty * %ToBE, and no filtered row left
\* out ranks strictly ahead of a returned one.
C9_TopN ==
    Ranked =>
        LET shown == {KeyOf(top_spreads[i]) : i \in DOMAIN top_spreads}
        IN  /\ Len(top_spreads) <= args.top_n
            /\ Len(top_spreads) = Min(args.top_n, Len(filtered))
            /\ Cardinality(shown) = Len(top_spreads)
            /\ \A t \in Range(top_spreads) : \E r \in Range(filtered) :
                    /\ KeyOf(r) = KeyOf(t)
                    /\ t.score = Round(DefinedScore(r), 3)
            /\ \A x, y \in Range(filtered) :
                    KeyOf(x) \notin shown /\ KeyOf(y) \in shown
                        => ~StrictlyAhead(x, y)

\* C9 witness: more rows passed the filters than top_n allows
C9_Witness ==
    /\ pc = "ranked" /\ args.top_n >= 1 /\ Len(filtered) > args.top_n
    /\ Len(top_spreads) = args.top_n

AdjacentRows == {i \in DOMAIN top_spreads : i + 1 \in DOMAIN top_spreads}
\* the score of a returned row before display rounding
UnroundedScore(t) ==
    (CHOOSE r \in Range(scored) : KeyOf(r) = KeyOf(t)).score

\* C1 as stated: on the returned (rounded) rows, adjacent rows a, b have
\* score(a) >= score(b), and max_loss_$(a) <= max_loss_$(b) when the two
\* scores shown are equal.
C1_AsStated ==
    Ranked =>
        \A i \in AdjacentRows :
            LET a == top_spreads[i]
                b == top_spreads[i + 1]
            IN  /\ Leq(b.score, a.score)
                /\ a.score = b.score => Leq(a.max_loss_usd, b.max_loss_usd)

\* C1 as amended: adjacent returned rows a, b have score(a) >= score(b) as
\* shown, and max_loss_$(a) <= max_loss_$(b) when their scores are equal
\* before the rounding to three decimals.
C1_Sorted ==
    Ranked =>
        \A i \in AdjacentRows :
            LET a == top_spreads[i]
                b == top_spreads[i + 1]
            IN  /\ Leq(b.score, a.score)
                /\ Leq(UnroundedScore(b), UnroundedScore(a))
                /\ UnroundedScore(a) = UnroundedScore(b)
                      => Leq(a.max_loss_usd, b.max_loss_usd)

\* C1 witness: two adjacent rows shown with the same score, the dearer first
C1_Witness ==
    /\ pc = "ranked"
    /\ \E i \in AdjacentRows :
          /\ top_spreads[i].score = top_spreads[i + 1].score
          /\ Lt(top_spreads[i + 1].max_loss_usd, top_spreads[i].max_loss_usd)

\* C10: once the cache holds a price it never changes and the provider is not
\* queried again, a get_spot_price call that returned a value returned the
\* cached one, a failed fetch leaves the cache empty, and every row of a scan
\* is computed from the cached price.
C10_Memoized ==
    [][/\ spot_price # None => spot_price' = spot_price /\ fetches' = fetches
       /\ ret' # None => ret' = spot_price'
       /\ (exc' = "KeyError" /\ fetches' # fetches) => spot_price' = None
       /\ printed_spot' # None => printed_spot' = spot_price'
       /\ \A r \in Range(all_spreads') :
             r.pctToBE = PctToBreakeven(r.breakeven, spot_price')]_vars

\* C10 witness: one fetch served a get_spot_price call and a whole scan
C10_Witness ==
    /\ pc = "built" /\ fetches = 1 /\ ret # None /\ ret = spot_price
    /\ Len(all_spreads) >= 2

(***************************************************************************)
(* Properties of main()                                                    *)
(***************************************************************************)
\* C6 as stated: no missing-data condition ends the run with an exception:
\* with no option expirations get_available_expirations does not raise, and
\* with no quotes left after cleaning the scan and the ranking are empty.
C6_AsStated ==
    /\ exc # "RuntimeError"
    /\ (Scanned /\ calls = <<>>) => all_spreads = <<>>
    /\ (Ranked /\ calls = <<>>) => top_spreads = <<>>

\* C7 as stated: invalid input never propagates as an exception or as a
\* returned value: choose_expiration has returned only an entry of the list,
\* ask_max_pct_to_be only the default or a number > 0.
C7_AsStated ==
    /\ exc # "ValueError"
    /\ pc \notin {"start", "choose", "raised"} => selected \in Range(expirations)
    /\ pc \notin {"start", "choose", "ask", "raised"} =>
          \/ max_pct = <<MAIN_DEFAULT_MAX_PCT, 1>>
          \/ Lt(<<0, 1>>, max_pct)

(***************************************************************************)
(* Properties of detect_ps_anomalies                                       *)
(***************************************************************************)
\* the non-missing observations of the ticker, by date
Observed(ticker) == {i \in DOMAIN df : df[i].Ticker = ticker /\ df[i].ps # NaN}
Latest(ticker) ==
    CHOOSE i \in Observed(ticker) : \A j \in Observed(ticker) : df[j].Date <= df[i].Date

\* C5: with z = (current - mean) / std over the returned current, mean and
\* std, current being the most recent observation, the label is "overvalued"
\* iff z >= 1.5, "undervalued" iff z <= -1.5 and "normal" otherwise; a ticker
\* without observations gets the "no data" marker and nothing is raised.
C5_Label ==
    pc = "ps_done" =>
        /\ exc = ""
        /\ IF Observed(stats.ticker) = {}
           THEN stats.error = "no data"
           ELSE /\ stats.error = ""
                /\ stats.current = Round(df[Latest(stats.ticker)].ps, 2)
                /\ LET d == Sub(stats.current, stats.mean)
                       positive == Lt(<<0, 1>>, stats.std)
                       over == \/ positive /\ Leq(Mul(<<3, 2>>, stats.std), d)
                               \/ ~positive /\ stats.z_score_current = PosInf
                       under == \/ positive /\ Leq(d, Mul(<<-3, 2>>, stats.std))
                                \/ ~positive /\ stats.z_score_current = NegInf
                   IN  /\ stats.label = "overvalued" <=> over
                       /\ stats.label = "undervalued" <=> under
                       /\ stats.label = "normal" <=> ~over /\ ~under

\* C5 witness: a current observation exactly 1.5 standard deviations above
\* the mean, labelled overvalued
C5_Witness ==
    /\ pc = "ps_done" /\ stats.error = ""
    /\ Lt(<<0, 1>>, stats.std)
    /\ Sub(stats.current, stats.mean) = Mul(<<3, 2>>, stats.std)
    /\ stats.label = "overvalued"

\* C8 as stated: when the series is non-empty and its rounded standard
\* deviation is zero, the z-score returned is a finite number.
C8_AsStated ==
    (pc = "ps_done" /\ stats.error = "" /\ stats.std = <<0, 1>>)
        => IsFinite(stats.z_score_current)

====
